---- MODULE Spec2Model ----
(***************************************************************************)
(* csv-chef: the recipe evaluator and row driver of package recipe         *)
(* (src/recipe/recipe.go).                                                 *)
(*                                                                         *)
(* A Go string is modelled as a sequence of one-character strings, so that *)
(* the character-level functions (case conversion, firstChars, Atoi, Itoa) *)
(* compute what the code computes.  An error is the sequence of the        *)
(* space-separated segments its format string produces: fmt.Errorf("%s %v",*)
(* prefix, err) is <<prefix>> \o err.  Render joins the segments again.    *)
(***************************************************************************)
EXTENDS Integers, Sequences, FiniteSets, TLC

(***************************************************************************)
(* Bounds of the model.                                                    *)
(***************************************************************************)
MaxCol == 2
MaxVars == 2
MaxFields == 2
MaxRows == 2
MaxLines == 200
MaxLimit == 1
MaxCalls == 3
MaxPipe == 3

(***************************************************************************)
(* Strings.                                                                *)
(***************************************************************************)
RECURSIVE Str(_)
Str(s) == IF s = <<>> THEN "" ELSE Head(s) \o Str(Tail(s))

Digits == <<"0", "1", "2", "3", "4", "5", "6", "7", "8", "9">>

IsDigit(c) == \E i \in 1..Len(Digits) : Digits[i] = c

DigitVal(c) == (CHOOSE i \in 1..Len(Digits) : Digits[i] = c) - 1

AllDigits(s) == Len(s) > 0 /\ \A i \in 1..Len(s) : IsDigit(s[i])

RECURSIVE DigitsVal(_)
DigitsVal(s) == IF s = <<>> THEN 0 ELSE 10 * DigitsVal(SubSeq(s, 1, Len(s) - 1)) + DigitVal(s[Len(s)])

\* Whether s is decimal integer text: an optional sign and at least one digit.
IsInt(s) == IF Len(s) > 0 /\ s[1] \in {"-", "+"} THEN AllDigits(Tail(s)) ELSE AllDigits(s)

IntVal(s) == IF s[1] = "-" THEN 0 - DigitsVal(Tail(s)) ELSE IF s[1] = "+" THEN DigitsVal(Tail(s)) ELSE DigitsVal(s)

\* strconv.Atoi with its error dropped, as every call of the package does
\* (n, _ := strconv.Atoi(s)): text that is no integer gives 0.
Atoi(s) == IF IsInt(s) THEN IntVal(s) ELSE 0

RECURSIVE NatText(_)
NatText(n) == IF n < 10 THEN <<Digits[n + 1]>> ELSE NatText(n \div 10) \o <<Digits[(n % 10) + 1]>>

\* strconv.Itoa
Itoa(n) == IF n < 0 THEN <<"-">> \o NatText(0 - n) ELSE NatText(n)

Uppers == <<"A", "B", "C", "D", "E", "F", "G", "H", "I", "J", "K", "L", "M", "N", "O", "P", "Q", "R", "S", "T", "U", "V", "W", "X", "Y", "Z">>

Lowers == <<"a", "b", "c", "d", "e", "f", "g", "h", "i", "j", "k", "l", "m", "n", "o", "p", "q", "r", "s", "t", "u", "v", "w", "x", "y", "z">>

LowerChar(c) == IF \E i \in 1..26 : Uppers[i] = c THEN Lowers[CHOOSE i \in 1..26 : Uppers[i] = c] ELSE c

UpperChar(c) == IF \E i \in 1..26 : Lowers[i] = c THEN Uppers[CHOOSE i \in 1..26 : Lowers[i] = c] ELSE c

\* strings.ToLower
ToLower(s) == [i \in 1..Len(s) |-> LowerChar(s[i])]

ToUpper(s) == [i \in 1..Len(s) |-> UpperChar(s[i])]

RECURSIVE Zeros(_)
Zeros(n) == IF n <= 0 THEN <<>> ELSE <<"0">> \o Zeros(n - 1)

RECURSIVE Copies(_, _)
Copies(n, s) == IF n <= 0 THEN <<>> ELSE s \o Copies(n - 1, s)

\* The text of an error: its segments joined by single spaces.
RECURSIVE Render(_)
Render(e) == IF e = <<>> THEN "" ELSE IF Len(e) = 1 THEN e[1] ELSE e[1] \o " " \o Render(Tail(e))

(***************************************************************************)
(* Data types.                                                             *)
(***************************************************************************)
Column == "Column"
Variable == "Variable"
Header == "Header"
Literal == "Literal"
Placeholder == "Placeholder"

Replace == "Replace"
Join == "Join"

Arg(type, value) == [Type |-> type, Value |-> value]

ColArg(text) == Arg(Column, text)
VarArg(name) == Arg(Variable, name)
LitArg(text) == Arg(Literal, text)

getPlaceholderArg == Arg(Placeholder, <<"?">>)

Op(name, arguments) == [Name |-> name, Arguments |-> arguments]

\* The zero value of Recipe with its Output set: no pipeline, no comment.
NewRecipe(type, value) == [Output |-> [Type |-> type, Value |-> value], Pipe |-> <<>>, Comment |-> <<>>]

getOutputForVariable(variable) == [Type |-> Variable, Value |-> variable]
getOutputForColumn(column) == [Type |-> Column, Value |-> column]
getOutputForHeader(header) == [Type |-> Header, Value |-> header]

LineContext(variables, columns, lineNo) == [Variables |-> variables, Columns |-> columns, LineNo |-> lineNo]

Has(m, k) == k \in DOMAIN m

Put(m, k, v) == [x \in (DOMAIN m) \cup {k} |-> IF x = k THEN v ELSE m[x]]

EmptyMap == <<>>

(***************************************************************************)
(* Results: a value, an error, or a run-time panic.                        *)
(***************************************************************************)
NoErr == <<>>
Ok(v) == [kind |-> "ok", val |-> v, err |-> NoErr]
Err(e) == [kind |-> "err", val |-> <<>>, err |-> e]
Panic == [kind |-> "panic", val |-> <<>>, err |-> <<"runtime error: index out of range">>]

(***************************************************************************)
(* Argument.GetValue (recipe.go:42-67).                                    *)
(***************************************************************************)
ColumnMissing(colNum) == <<"column " \o Str(Itoa(colNum)) \o " referenced, but it does not exist in the input">>

VariableUndefined(name) == <<"variable '" \o Str(name) \o "' referenced, but it is not defined">>

GetValue(a, context, placeholder) ==
  CASE a.Type = Column ->
         IF Has(context.Columns, Atoi(a.Value)) THEN Ok(context.Columns[Atoi(a.Value)])
         ELSE Err(ColumnMissing(Atoi(a.Value)))
    [] a.Type = Variable ->
         IF Has(context.Variables, a.Value) THEN Ok(context.Variables[a.Value])
         ELSE Err(VariableUndefined(a.Value))
    [] a.Type = Literal -> Ok(a.Value)
    [] a.Type = Placeholder -> Ok(placeholder)
    [] OTHER -> Err(<<"argument GetValue not implemented for type " \o a.Type>>)

(***************************************************************************)
(* processArgs (recipe.go:565-581): the argument list is padded with       *)
(* placeholder arguments up to numArgs, then the first numArgs arguments   *)
(* are resolved in order; the first failure is returned.                   *)
(***************************************************************************)
\* processArgs padding a short argument list with empty literals instead of
\* placeholders.
PadArgsEmpty(numArgs, arguments) == IF Len(arguments) >= numArgs THEN arguments ELSE arguments \o [i \in 1..(numArgs - Len(arguments)) |-> LitArg(<<>>)]

PadArgs(numArgs, arguments) == IF Len(arguments) >= numArgs THEN arguments ELSE arguments \o [i \in 1..(numArgs - Len(arguments)) |-> getPlaceholderArg]

\* The value of one argument before those of the arguments after it.
ConsArg(r, rest) ==
  IF r.kind # "ok" THEN [kind |-> "err", vals |-> <<>>, err |-> r.err]
  ELSE IF rest.kind # "ok" THEN rest
  ELSE [kind |-> "ok", vals |-> <<r.val>> \o rest.vals, err |-> NoErr]

RECURSIVE ResolveArgs(_, _, _, _, _)
ResolveArgs(i, numArgs, arguments, context, placeholder) ==
  IF i > numArgs THEN [kind |-> "ok", vals |-> <<>>, err |-> NoErr]
  ELSE ConsArg(GetValue(arguments[i], context, placeholder), ResolveArgs(i + 1, numArgs, arguments, context, placeholder))

processArgs(numArgs, arguments, context, placeholder) == ResolveArgs(1, numArgs, PadArgs(numArgs, arguments), context, placeholder)

(***************************************************************************)
(* The operation library.  Its source is not part of src/; these are the   *)
(* functions of the catalog the evaluator is exercised with, written from  *)
(* the catalog and from the texts parse_execute_test.go expects.  Numbers  *)
(* are decimal integers here (no fraction, no exponent).                   *)
(***************************************************************************)
Uppercase(s) == ToUpper(s)

Lowercase(s) == ToLower(s)

Add(a, b) ==
  IF ~IsInt(a) THEN Err(<<"first arg to Add was not numeric: " \o Str(a)>>)
  ELSE IF ~IsInt(b) THEN Err(<<"second arg to Add was not numeric: " \o Str(b)>>)
  ELSE Ok(Itoa(IntVal(a) + IntVal(b)) \o <<".">> \o Zeros(6))

Change(from, to, input) == IF input = from THEN Ok(to) ELSE Ok(input)

NumberFormat(input, digits) ==
  IF ~IsInt(input) THEN Err(<<"error: input is not numeric: got '" \o Str(input) \o "'">>)
  ELSE IF ~IsInt(digits) THEN Err(<<"error: digits must be an integer, got '" \o Str(digits) \o "'">>)
  ELSE Ok(Itoa(IntVal(input)) \o (IF IntVal(digits) > 0 THEN <<".">> \o Zeros(IntVal(digits)) ELSE <<>>))

FirstChars(count, input) ==
  IF ~IsInt(count) THEN Err(<<"first arg is not an integer: got '" \o Str(count) \o "'">>)
  ELSE IF IntVal(count) < 0 THEN Err(<<"first arg is negative: got '" \o Str(count) \o "'">>)
  ELSE IF IntVal(count) >= Len(input) THEN Ok(input)
  ELSE Ok(SubSeq(input, 1, IntVal(count)))

Repeat(count, input) ==
  IF ~IsInt(count) THEN Err(<<"first arg is not an integer: got '" \o Str(count) \o "'">>)
  ELSE IF IntVal(count) < 0 THEN Err(<<"first arg is negative: got '" \o Str(count) \o "'">>)
  ELSE Ok(Copies(IntVal(count), input))

(***************************************************************************)
(* Operation names, as recipe text spells them.                            *)
(***************************************************************************)
N_value == <<"v", "a", "l", "u", "e">>
N_join == <<"j", "o", "i", "n">>
N_uppercase == <<"u", "p", "p", "e", "r", "c", "a", "s", "e">>
N_lowercase == <<"l", "o", "w", "e", "r", "c", "a", "s", "e">>
N_add == <<"a", "d", "d">>
N_change == <<"c", "h", "a", "n", "g", "e">>
N_numberformat == <<"n", "u", "m", "b", "e", "r", "f", "o", "r", "m", "a", "t">>
N_lineno == <<"l", "i", "n", "e", "n", "o">>
N_firstchars == <<"f", "i", "r", "s", "t", "c", "h", "a", "r", "s">>
N_firstChars == <<"f", "i", "r", "s", "t", "C", "h", "a", "r", "s">>
N_repeat == <<"r", "e", "p", "e", "a", "t">>
N_nosuch == <<"n", "o", "p", "e">>

(***************************************************************************)
(* processRecipe (recipe.go:291-563), one operation of the pipeline at a   *)
(* time.  The evaluator's locals are st.placeholder, st.value and st.mode. *)
(***************************************************************************)
\* The prefix of recipe.go:296 counting the lines from 0.
errorPrefixFromZero(recipeType, variable, context) == "line " \o Str(Itoa(context.LineNo - 1)) \o " / " \o recipeType \o " " \o Str(variable.Output.Value) \o ":"

errorPrefix(recipeType, variable, context) == "line " \o Str(Itoa(context.LineNo)) \o " / " \o recipeType \o " " \o Str(variable.Output.Value) \o ":"

StartState == [placeholder |-> <<>>, value |-> <<>>, mode |-> Replace]

Next_(kind, st, err) == [kind |-> kind, placeholder |-> st.placeholder, value |-> st.value, mode |-> st.mode, err |-> err]

\* The combination of recipe.go:552-560 putting the joined value before the
\* running value.
CombinePrepends(st, value) ==
  CASE st.mode = Replace -> Next_("ok", [placeholder |-> value, value |-> value, mode |-> Replace], NoErr)
    [] st.mode = Join -> Next_("ok", [placeholder |-> value \o st.placeholder, value |-> value, mode |-> Replace], NoErr)
    [] OTHER -> Next_("err", st, <<"invalid join mode " \o st.mode>>)

\* The combination of recipe.go:552-560 without the `mode = Replace` of the
\* Join case.
CombineStaysJoin(st, value) ==
  CASE st.mode = Replace -> Next_("ok", [placeholder |-> value, value |-> value, mode |-> Replace], NoErr)
    [] st.mode = Join -> Next_("ok", [placeholder |-> st.placeholder \o value, value |-> value, mode |-> Join], NoErr)
    [] OTHER -> Next_("err", st, <<"invalid join mode " \o st.mode>>)

\* recipe.go:552-560: the value of the operation replaces the running value
\* or is appended to it.
Combine(st, value) ==
  CASE st.mode = Replace -> Next_("ok", [placeholder |-> value, value |-> value, mode |-> Replace], NoErr)
    [] st.mode = Join -> Next_("ok", [placeholder |-> st.placeholder \o value, value |-> value, mode |-> Replace], NoErr)
    [] OTHER -> Next_("err", st, <<"invalid join mode " \o st.mode>>)

\* The operations evaluated through processArgs: the number of arguments the
\* evaluator asks processArgs for.
NumArgs(opName) ==
  CASE opName = N_add -> 2
    [] opName = N_change -> 3
    [] opName = N_numberformat -> 3
    [] opName = N_firstchars -> 2
    [] opName = N_repeat -> 2

UsesProcessArgs(opName) == opName \in {N_add, N_change, N_numberformat, N_firstchars, N_repeat}

\* The library call of each of them, on the resolved arguments.
Call(opName, args) ==
  CASE opName = N_add -> Add(args[1], args[2])
    [] opName = N_change -> Change(args[1], args[2], args[3])
    [] opName = N_numberformat -> NumberFormat(args[1], args[2])
    [] opName = N_firstchars -> FirstChars(args[1], args[2])
    [] opName = N_repeat -> Repeat(args[1], args[2])

\* recipe.go:301-307, with r the value of the first argument
ValueOp(prefix, r, st) ==
  IF r.kind # "ok" THEN Next_("err", st, <<prefix>> \o r.err)
  ELSE Combine(st, r.val)

\* The join without the `continue` of recipe.go:316-318: the placeholder is
\* combined like any other argument.
JoinOpAtOnce(prefix, firstArg, r, st) ==
  IF r.kind # "ok" THEN Next_("err", [st EXCEPT !.mode = Join], <<prefix>> \o r.err)
  ELSE Combine([st EXCEPT !.mode = Join], r.val)

\* recipe.go:308-319: the mode is Join from here on; a placeholder argument
\* leaves the loop iteration before the value is combined.
JoinOp(prefix, firstArg, r, st) ==
  IF r.kind # "ok" THEN Next_("err", [st EXCEPT !.mode = Join], <<prefix>> \o r.err)
  ELSE IF firstArg.Type = Placeholder THEN Next_("ok", [st EXCEPT !.mode = Join, !.value = r.val], NoErr)
  ELSE Combine([st EXCEPT !.mode = Join], r.val)

\* uppercase and lowercase reporting the error of their argument the way
\* value and join do, without the name of the operation.
CaseOpBare(prefix, opName, r, st) ==
  IF r.kind # "ok" THEN Next_("err", st, <<prefix>> \o r.err)
  ELSE Combine(st, IF opName = N_uppercase THEN Uppercase(r.val) ELSE Lowercase(r.val))

\* recipe.go:320-331
CaseOp(prefix, opName, r, st) ==
  IF r.kind # "ok" THEN Next_("err", st, <<prefix, Str(opName) \o "(): error evaluating arg:">> \o r.err)
  ELSE Combine(st, IF opName = N_uppercase THEN Uppercase(r.val) ELSE Lowercase(r.val))

\* The library's answer to an operation: change drops the library's error
\* (recipe.go:377).
Called(prefix, opName, r, st) ==
  IF r.kind # "ok" /\ opName # N_change THEN Next_("err", st, <<prefix, Str(opName) \o "():">> \o r.err)
  ELSE Combine(st, r.val)

\* recipe.go:332-341 and the cases of the same shape, with a what
\* processArgs returned.
ArgsOp(prefix, opName, a, st) ==
  IF a.kind # "ok" THEN Next_("err", st, <<prefix, Str(opName) \o "(): error evaluating arg:">> \o a.err)
  ELSE Called(prefix, opName, Call(opName, a.vals), st)

\* The operations that index o.Arguments[0] (recipe.go:302, 309, 321, 327):
\* an empty argument list is an index out of range.
FirstArgOp(prefix, opName, o, r, st) ==
  CASE opName = N_value -> ValueOp(prefix, r, st)
    [] opName = N_join -> JoinOp(prefix, o.Arguments[1], r, st)
    [] OTHER -> CaseOp(prefix, opName, r, st)

Dispatch(prefix, opName, o, context, st) ==
  CASE opName \in {N_value, N_join, N_uppercase, N_lowercase} ->
         IF Len(o.Arguments) = 0 THEN Next_("panic", st, Panic.err)
         ELSE FirstArgOp(prefix, opName, o, GetValue(o.Arguments[1], context, st.placeholder), st)
    [] UsesProcessArgs(opName) -> ArgsOp(prefix, opName, processArgs(NumArgs(opName), o.Arguments, context, st.placeholder), st)
    [] opName = N_lineno -> Combine(st, Itoa(context.LineNo))
    [] OTHER -> Next_("err", st, <<prefix, "error: processing variable, unimplemented operation " \o Str(o.Name)>>)

\* One iteration of the loop of recipe.go:298-561.
OpStep(recipeType, variable, context, o, st) == Dispatch(errorPrefix(recipeType, variable, context), ToLower(o.Name), o, context, st)

Locals(r) == [placeholder |-> r.placeholder, value |-> r.value, mode |-> r.mode]

RECURSIVE RunPipe(_, _, _, _, _, _)
\* The loop from operation i on, r being what the operations before it left.
RunPipe(recipeType, variable, context, pipe, i, r) ==
  IF r.kind # "ok" \/ i > Len(pipe) THEN r
  ELSE RunPipe(recipeType, variable, context, pipe, i + 1, OpStep(recipeType, variable, context, pipe[i], Locals(r)))

Returned(r) == IF r.kind = "ok" THEN Ok(r.placeholder) ELSE [kind |-> r.kind, val |-> <<>>, err |-> r.err]

\* processRecipe: the final placeholder, or the error of the first failing
\* operation.
processRecipe(recipeType, variable, context) == Returned(RunPipe(recipeType, variable, context, variable.Pipe, 1, Next_("ok", StartState, NoErr)))

\* recipe.go:565-568 as written back to the caller: processArgs pads the
\* slice it was handed as if it were handed the Operation itself.
ArgumentsLeftPadded(numArgs, arguments) == PadArgs(numArgs, arguments)

\* recipe.go:565-568: processArgs gets the slice by value and `append`
\* assigns its own copy of it; the argument list of the caller's Operation
\* keeps its length and its elements.
ArgumentsLeft(numArgs, arguments) == arguments

\* An operation of the pipeline as its evaluation leaves it.
OperationLeft(o) ==
  IF UsesProcessArgs(ToLower(o.Name)) THEN [o EXCEPT !.Arguments = ArgumentsLeft(NumArgs(ToLower(o.Name)), o.Arguments)]
  ELSE o

RECURSIVE OpsRun(_, _, _, _, _, _)
\* The number of operations the loop of recipe.go:298-561 enters, from
\* operation i on.
OpsRun(recipeType, variable, context, pipe, i, r) ==
  IF r.kind # "ok" \/ i > Len(pipe) THEN i - 1
  ELSE OpsRun(recipeType, variable, context, pipe, i + 1, OpStep(recipeType, variable, context, pipe[i], Locals(r)))

PipeLeft(pipe, n) == [i \in 1..Len(pipe) |-> IF i <= n THEN OperationLeft(pipe[i]) ELSE pipe[i]]

\* The recipes of a map of the Transformation once processRecipe has run
\* the one of key k.
RecipesLeft(m, k, recipeType, context) ==
  IF Has(m, k)
  THEN [m EXCEPT ![k].Pipe = PipeLeft(m[k].Pipe, OpsRun(recipeType, m[k], context, m[k].Pipe, 1, Next_("ok", StartState, NoErr)))]
  ELSE m

(***************************************************************************)
(* The Transformation and the functions that build it (recipe.go:140-169,  *)
(* 590-646, 679-685).  Each takes the Transformation and returns the       *)
(* Transformation it leaves and the error it returns.                      *)
(***************************************************************************)
NewTransformation == [Variables |-> EmptyMap, Columns |-> EmptyMap, Headers |-> EmptyMap, VariableOrder |-> <<>>]

Built(tr, e) == [t |-> tr, err |-> e]

AddOutputToVariable(tr, variable) ==
  IF Has(tr.Variables, variable) THEN Built(tr, <<"variable " \o Str(variable) \o " already defined">>)
  ELSE Built([tr EXCEPT !.Variables = Put(@, variable, NewRecipe(Variable, variable))], NoErr)

\* AddOutputToColumn storing the new recipe before it looks the key up.
AddOutputToColumnOverwrite(tr, column) ==
  IF Has(tr.Columns, Atoi(column)) THEN Built([tr EXCEPT !.Columns = Put(@, Atoi(column), NewRecipe(Column, column))], <<"column " \o Str(Itoa(Atoi(column))) \o " already defined">>)
  ELSE Built([tr EXCEPT !.Columns = Put(@, Atoi(column), NewRecipe(Column, column))], NoErr)

AddOutputToColumn(tr, column) ==
  IF Has(tr.Columns, Atoi(column)) THEN Built(tr, <<"column " \o Str(Itoa(Atoi(column))) \o " already defined">>)
  ELSE Built([tr EXCEPT !.Columns = Put(@, Atoi(column), NewRecipe(Column, column))], NoErr)

AddOutputToHeader(tr, header) ==
  IF Has(tr.Headers, Atoi(header)) THEN Built(tr, <<"header " \o Str(Itoa(Atoi(header))) \o " already defined">>)
  ELSE Built([tr EXCEPT !.Headers = Put(@, Atoi(header), NewRecipe(Header, header))], NoErr)

AppendOp(recipe, operation) == [recipe EXCEPT !.Pipe = Append(@, operation)]

\* recipe.go:596-602: the operation is appended to the pipe of the recipe
\* at key k of map m.
AppendAt(m, k, operation) == Put(m, k, AppendOp(m[k], operation))

\* A target that is not declared yet is declared first (recipe.go:592-595);
\* the error of a target that is, is dropped.
AddOperationToVariable(tr, variable, operation) == [tr EXCEPT !.Variables = AppendAt(AddOutputToVariable(tr, variable).t.Variables, variable, operation)]

AddOperationToColumn(tr, column, operation) == [tr EXCEPT !.Columns = AppendAt(AddOutputToColumn(tr, column).t.Columns, Atoi(column), operation)]

AddOperationToHeader(tr, header, operation) == [tr EXCEPT !.Headers = AppendAt(AddOutputToHeader(tr, header).t.Headers, Atoi(header), operation)]

AddOperationByType(tr, targetType, target, operation) ==
  CASE targetType = Variable -> AddOperationToVariable(tr, target, operation)
    [] targetType = Column -> AddOperationToColumn(tr, target, operation)
    [] targetType = Header -> AddOperationToHeader(tr, target, operation)
    [] OTHER -> tr

AddOutputByType(tr, targetType, target) ==
  CASE targetType = Variable -> AddOutputToVariable(tr, target)
    [] targetType = Column -> AddOutputToColumn(tr, target)
    [] targetType = Header -> AddOutputToHeader(tr, target)

(***************************************************************************)
(* ValidateRecipe (recipe.go:648-671).  The range over Headers visits the  *)
(* keys in no fixed order: any orphan header may be the one reported.      *)
(***************************************************************************)
MissingColumns(tr) == {c \in 1..Cardinality(DOMAIN tr.Columns) : ~Has(tr.Columns, c)}

OrphanHeaders(tr) == {h \in DOMAIN tr.Headers : ~Has(tr.Columns, h)}

Min(S) == CHOOSE x \in S : \A y \in S : x <= y

\* ValidateRecipe without the check of the headers (recipe.go:665-669 left out).
ValidateRecipeNoHeaderCheck(tr) ==
  IF Cardinality(DOMAIN tr.Columns) = 0 THEN {<<"no column recipes provided">>}
  ELSE IF MissingColumns(tr) # {} THEN {<<"missing column definition for column #" \o Str(Itoa(Min(MissingColumns(tr))))>>}
  ELSE {NoErr}

\* ValidateRecipe with the loop of recipe.go:658 counting from 0.
ValidateRecipeFromZero(tr) ==
  IF Cardinality(DOMAIN tr.Columns) = 0 THEN {<<"no column recipes provided">>}
  ELSE IF \E c \in 0..(Cardinality(DOMAIN tr.Columns) - 1) : ~Has(tr.Columns, c) THEN {<<"missing column definition for column">>}
  ELSE IF OrphanHeaders(tr) # {}
       THEN {<<"found header for column " \o Str(Itoa(h)) \o ", but no recipe for column " \o Str(Itoa(h))>> : h \in OrphanHeaders(tr)}
  ELSE {NoErr}

ValidateRecipe(tr) ==
  IF Cardinality(DOMAIN tr.Columns) = 0 THEN {<<"no column recipes provided">>}
  ELSE IF MissingColumns(tr) # {} THEN {<<"missing column definition for column #" \o Str(Itoa(Min(MissingColumns(tr))))>>}
  ELSE IF OrphanHeaders(tr) # {}
       THEN {<<"found header for column " \o Str(Itoa(h)) \o ", but no recipe for column " \o Str(Itoa(h))>> : h \in OrphanHeaders(tr)}
  ELSE {NoErr}

(***************************************************************************)
(* The parser's use of these functions.  parse.go is not part of src/: one *)
(* assignment `target <- pipeline` declares the target, records a variable *)
(* in VariableOrder, and adds the operations of the pipeline in order.     *)
(***************************************************************************)
RECURSIVE AddPipe(_, _, _, _, _)
AddPipe(tr, targetType, target, pipe, i) ==
  IF i > Len(pipe) THEN tr
  ELSE AddPipe(AddOperationByType(tr, targetType, target, pipe[i]), targetType, target, pipe, i + 1)

Ordered(tr, targetType, target) == IF targetType = Variable THEN [tr EXCEPT !.VariableOrder = Append(@, target)] ELSE tr

Assigned(r, targetType, target, pipe) == IF r.err # NoErr THEN r ELSE Built(AddPipe(Ordered(r.t, targetType, target), targetType, target, pipe, 1), NoErr)

ParseAssignment(tr, targetType, target, pipe) == Assigned(AddOutputByType(tr, targetType, target), targetType, target, pipe)

(***************************************************************************)
(* The recipes and rows the driver is run on.                              *)
(***************************************************************************)
VarName(i) == <<"$", Lowers[i]>>

ColText(i) == Itoa(i)

C_value(a) == Op(N_value, <<a>>)
C_join(a) == Op(N_join, <<a>>)

VarPipes == {<<C_value(ColArg(ColText(1)))>>} \cup {<<C_value(VarArg(VarName(i)))>> : i \in 1..MaxVars}

ColPipes ==
  {<<Op(N_lineno, <<>>)>>, <<C_value(ColArg(ColText(MaxFields)))>>,
   <<C_value(VarArg(VarName(1))), Op(N_uppercase, <<getPlaceholderArg>>)>>,
   <<Op(N_lineno, <<>>), Op(N_add, <<ColArg(ColText(1))>>)>>}

HdrPipes == {<<C_value(ColArg(ColText(MaxFields))), Op(N_uppercase, <<getPlaceholderArg>>)>>}

Choices(pipes) == {[declared |-> FALSE, pipe |-> <<>>]} \cup {[declared |-> TRUE, pipe |-> p] : p \in pipes}

RECURSIVE ParseVars(_, _, _)
ParseVars(tr, pipes, i) ==
  IF i > Len(pipes) THEN tr
  ELSE ParseVars(ParseAssignment(tr, Variable, VarName(i), pipes[i]).t, pipes, i + 1)

RECURSIVE ParseIndexed(_, _, _, _)
ParseIndexed(tr, targetType, choice, i) ==
  IF i > MaxCol THEN tr
  ELSE ParseIndexed(IF choice[i].declared THEN ParseAssignment(tr, targetType, ColText(i), choice[i].pipe).t ELSE tr, targetType, choice, i + 1)

\* The Transformations of up to MaxVars variables and of columns and headers
\* among 1..MaxCol, each with one of the pipelines above.
Transformations ==
  {ParseIndexed(ParseIndexed(ParseVars(NewTransformation, vs, 1), Column, cs, 1), Header, hs, 1) :
     vs \in UNION {[1..n -> VarPipes] : n \in 0..MaxVars},
     cs \in [1..MaxCol -> Choices(ColPipes)],
     hs \in [1..MaxCol -> Choices(HdrPipes)]}

FieldVals == {<<"a">>, <<"4", "2">>}

Rows == UNION {[1..n -> FieldVals] : n \in 1..MaxFields}

\* The rows of a long input, and the Transformations and line limits it is
\* run with: at most one variable, one column and one header.
Lines == {<<<<"a">>, <<"4", "2">>>>}

LongTransformations ==
  {tr \in Transformations :
     /\ Len(tr.VariableOrder) <= 1
     /\ \A v \in DOMAIN tr.Variables : tr.Variables[v].Pipe = <<C_value(ColArg(ColText(1)))>>
     /\ DOMAIN tr.Columns \subseteq {1}
     /\ DOMAIN tr.Headers \subseteq {1}}

(***************************************************************************)
(* State.  t is the Transformation; lastCall, lastErr and calls belong to  *)
(* the building of it; recipeType, recipe, ip and st to one evaluation of  *)
(* a pipeline; the rest to a run of Execute: its arguments, its locals     *)
(* (linesRead, row, context, output), the rows its reader has returned so  *)
(* far (input), the position in its loops (pc,                             *)
(* varIdx, todo), the writer (written, flushes) and what it returns        *)
(* (result, err).  site records what the run ended on.                     *)
(***************************************************************************)
VARIABLES t, lastCall, lastErr, calls, processHeader, lineLimit, pc, linesRead, input, row, context, varIdx, output, todo, written, flushes, result, err, site, recipeType, recipe, ip, st

vars == <<t, lastCall, lastErr, calls, processHeader, lineLimit, pc, linesRead, input, row, context, varIdx, output, todo, written, flushes, result, err, site, recipeType, recipe, ip, st>>

buildVars == <<lastCall, lastErr, calls>>

execVars == <<processHeader, lineLimit, linesRead, input, row, varIdx, output, todo, written, flushes, result, site>>

pipeVars == <<recipeType, recipe, ip, st>>

NoCall == [fn |-> "none", type |-> "none", target |-> <<>>]

ZeroRecipe == [Output |-> [Type |-> "", Value |-> <<>>], Pipe |-> <<>>, Comment |-> <<>>]

\* m[k] of a Go map: the zero Recipe when k is absent.
RecipeAt(m, k) == IF Has(m, k) THEN m[k] ELSE ZeroRecipe

\* What a run ended on: the end of the input or the line limit ("end"), the
\* validation, a read, a write, or the recipe of a variable (name), of a
\* header or of a column (index).
Site(kind, name, index) == [kind |-> kind, name |-> name, index |-> index]

NoSite == Site("none", <<>>, 0)

NilResult == [nil |-> TRUE, HeaderLines |-> 0, Lines |-> 0]

TransformationResult(headerLines, lines) == [nil |-> FALSE, HeaderLines |-> headerLines, Lines |-> lines]

FlushEvery == 100

LongLimits == {0, FlushEvery}

BuildIdle == lastCall = NoCall /\ lastErr = NoErr /\ calls = 0

ExecIdle ==
  /\ processHeader = FALSE /\ lineLimit = 0 /\ linesRead = 0 /\ input = <<>> /\ row = <<>>
  /\ varIdx = 0 /\ output = EmptyMap /\ todo = {} /\ written = <<>> /\ flushes = 0
  /\ result = NilResult /\ site = NoSite

PipeIdle == recipeType = "" /\ recipe = ZeroRecipe /\ ip = 0 /\ st = StartState

(***************************************************************************)
(* Execute (recipe.go:171-277).                                            *)
(***************************************************************************)
numColumns == Cardinality(DOMAIN t.Columns)

\* A return of Execute: the deferred writer.Flush() runs on every one.
Return(res, e, why) ==
  /\ pc' = "done" /\ result' = res /\ err' = e /\ site' = why
  /\ flushes' = flushes + 1

\* The result of recipe.go:266-276 without the header line taken off Lines.
ReturnResultAllLines == Return(TransformationResult(IF processHeader THEN 1 ELSE 0, linesRead), NoErr, Site("end", <<>>, 0))

ReturnResult == Return(TransformationResult(IF processHeader THEN 1 ELSE 0, linesRead - (IF processHeader THEN 1 ELSE 0)), NoErr, Site("end", <<>>, 0))

\* recipe.go:176-179
Validate ==
  /\ pc = "start"
  /\ \E e \in ValidateRecipe(t) :
       IF e # NoErr
       THEN Return(NilResult, e, Site("validate", <<>>, 0)) /\ UNCHANGED <<linesRead, written>>
       ELSE pc' = "loop" /\ linesRead' = 0 /\ UNCHANGED <<result, err, site, flushes, written>>
  /\ UNCHANGED <<t, buildVars, pipeVars, processHeader, lineLimit, input, row, context, varIdx, output, todo>>

\* recipe.go:182-184
LimitReached ==
  /\ pc = "loop" /\ lineLimit > 0 /\ linesRead >= lineLimit
  /\ ReturnResult
  /\ UNCHANGED <<t, buildVars, pipeVars, processHeader, lineLimit, input, linesRead, row, context, varIdx, output, todo, written>>

\* The test of recipe.go:182 with > for >=: one row more than the limit is
\* read.
CanReadPastLimit == pc = "loop" /\ ~(lineLimit > 0 /\ linesRead > lineLimit)

CanRead == pc = "loop" /\ ~(lineLimit > 0 /\ linesRead >= lineLimit)

\* The read with the context made once, before the loop: the variables of
\* the row before stay bound when the next row is read.
ReadKeepsVariables(rows, most) ==
  /\ CanRead /\ linesRead < most
  /\ \E r \in rows :
       /\ row' = r
       /\ input' = Append(input, r)
       /\ context' = LineContext(context.Variables, [i \in 1..Len(r) |-> r[i]], linesRead + 1)
  /\ linesRead' = linesRead + 1
  /\ varIdx' = 1 /\ pc' = "vars"
  /\ UNCHANGED <<t, buildVars, pipeVars, processHeader, lineLimit, output, todo, written, flushes, result, err, site>>

\* recipe.go:185-202: a row is read and the context of the row is made.  The
\* reader returns one of rows, and at most `most` of them.
Read(rows, most) ==
  /\ CanRead /\ linesRead < most
  /\ \E r \in rows :
       /\ row' = r
       /\ input' = Append(input, r)
       /\ context' = LineContext(EmptyMap, [i \in 1..Len(r) |-> r[i]], linesRead + 1)
  /\ linesRead' = linesRead + 1
  /\ varIdx' = 1 /\ pc' = "vars"
  /\ UNCHANGED <<t, buildVars, pipeVars, processHeader, lineLimit, output, todo, written, flushes, result, err, site>>

ReadRow == Read(Rows, MaxRows)

\* The same read on a long input of equal rows, which reaches the rows at
\* which the writer is flushed.
ReadLine == Read(Lines, MaxLines)

\* recipe.go:186-188
ReadEOF ==
  /\ CanRead
  /\ ReturnResult
  /\ UNCHANGED <<t, buildVars, pipeVars, processHeader, lineLimit, input, linesRead, row, context, varIdx, output, todo, written>>

\* recipe.go:189-191
ReadError ==
  /\ CanRead
  /\ Return(NilResult, <<"read error">>, Site("read", <<>>, 0))
  /\ UNCHANGED <<t, buildVars, pipeVars, processHeader, lineLimit, input, linesRead, row, context, varIdx, output, todo, written>>

\* What a failed or panicking evaluation makes of the run.
Abort(r, why) ==
  IF r.kind = "panic"
  THEN pc' = "panicked" /\ result' = NilResult /\ err' = r.err /\ site' = why /\ flushes' = flushes + 1
  ELSE Return(NilResult, r.err, why)

\* The loop of recipe.go:205-213 binding a result only when it moves on to
\* the header or column recipes: the variable is not bound for the variables
\* after it.
VariableDoneUnbound(v, r) ==
  IF r.kind # "ok"
  THEN Abort(r, Site("variable", v, 0)) /\ UNCHANGED <<context, varIdx>>
  ELSE /\ context' = context
       /\ varIdx' = varIdx + 1
       /\ UNCHANGED <<pc, result, err, site, flushes>>

\* recipe.go:209-212: the error is returned, or the variable is bound.
VariableDone(v, r) ==
  IF r.kind # "ok"
  THEN Abort(r, Site("variable", v, 0)) /\ UNCHANGED <<context, varIdx>>
  ELSE /\ context' = [context EXCEPT !.Variables = Put(@, RecipeAt(t.Variables, v).Output.Value, r.val)]
       /\ varIdx' = varIdx + 1
       /\ UNCHANGED <<pc, result, err, site, flushes>>

\* The loops of recipe.go:228-235 and 246-253 dropping the error of
\* processRecipe: the slot gets the empty string and the run goes on.
SlotDoneDropsError(kind, k, r) ==
  /\ output' = Put(output, k, r.val)
  /\ todo' = todo \ {k}
  /\ UNCHANGED <<pc, result, err, site, flushes>>

\* recipe.go:231-234 and 249-252: the error is returned, or the value is
\* put in the output map.
SlotDone(kind, k, r) ==
  IF r.kind # "ok"
  THEN Abort(r, Site(kind, <<>>, k)) /\ UNCHANGED <<output, todo>>
  ELSE /\ output' = Put(output, k, r.val)
       /\ todo' = todo \ {k}
       /\ UNCHANGED <<pc, result, err, site, flushes>>

\* recipe.go:205-213, one iteration.
EvalVariable ==
  /\ pc = "vars" /\ varIdx <= Len(t.VariableOrder)
  /\ VariableDone(t.VariableOrder[varIdx], processRecipe("variable", RecipeAt(t.Variables, t.VariableOrder[varIdx]), context))
  /\ t' = [t EXCEPT !.Variables = RecipesLeft(t.Variables, t.VariableOrder[varIdx], "variable", context)]
  /\ UNCHANGED <<buildVars, pipeVars, processHeader, lineLimit, input, linesRead, row, output, todo, written>>

SyntheticHeader(i) == <<"c", "o", "l", "u", "m", "n", " ">> \o Itoa(i)

\* The header branch without the loop of recipe.go:218-226 that seeds the
\* output from the input row.
StartHeaderUnseeded ==
  /\ pc = "vars" /\ varIdx > Len(t.VariableOrder)
  /\ processHeader /\ linesRead = 1
  /\ output' = EmptyMap
  /\ todo' = DOMAIN t.Headers
  /\ pc' = "header"
  /\ UNCHANGED <<t, buildVars, pipeVars, processHeader, lineLimit, input, linesRead, row, context, varIdx, written, flushes, result, err, site>>

\* recipe.go:215-226: the header row is seeded from the input row.
StartHeader ==
  /\ pc = "vars" /\ varIdx > Len(t.VariableOrder)
  /\ processHeader /\ linesRead = 1
  /\ output' = [i \in 1..numColumns |-> IF i <= Len(row) THEN row[i] ELSE SyntheticHeader(i)]
  /\ todo' = DOMAIN t.Headers
  /\ pc' = "header"
  /\ UNCHANGED <<t, buildVars, pipeVars, processHeader, lineLimit, input, linesRead, row, context, varIdx, written, flushes, result, err, site>>

\* recipe.go:228-235, one iteration; the range visits the keys in any order.
EvalHeader ==
  /\ pc = "header"
  /\ \E h \in todo :
       /\ SlotDone("header", h, processRecipe("header", t.Headers[h], context))
       /\ t' = [t EXCEPT !.Headers = RecipesLeft(t.Headers, h, "header", context)]
  /\ UNCHANGED <<buildVars, pipeVars, processHeader, lineLimit, input, linesRead, row, context, varIdx, written>>

\* recipe.go:243-244
StartColumns ==
  /\ pc = "vars" /\ varIdx > Len(t.VariableOrder)
  /\ ~processHeader \/ linesRead > 1
  /\ output' = EmptyMap
  /\ todo' = DOMAIN t.Columns
  /\ pc' = "columns"
  /\ UNCHANGED <<t, buildVars, pipeVars, processHeader, lineLimit, input, linesRead, row, context, varIdx, written, flushes, result, err, site>>

\* recipe.go:246-253, one iteration; the range visits the keys in any order.
EvalColumn ==
  /\ pc = "columns"
  /\ \E c \in todo :
       /\ SlotDone("column", c, processRecipe("column", t.Columns[c], context))
       /\ t' = [t EXCEPT !.Columns = RecipesLeft(t.Columns, c, "column", context)]
  /\ UNCHANGED <<buildVars, pipeVars, processHeader, lineLimit, input, linesRead, row, context, varIdx, written>>

\* outputCsvRow taking the fields from key 0 on.
outputRowFromZero(n, out) == [i \in 1..n |-> IF Has(out, i - 1) THEN out[i - 1] ELSE <<>>]

\* outputCsvRow (recipe.go:279-289): the fields 1..numColumns of the output
\* map, the empty string for a key it does not hold.
outputRow(n, out) == [i \in 1..n |-> IF Has(out, i) THEN out[i] ELSE <<>>]

\* The end of the loop body without recipe.go:261-263: the writer is flushed
\* only when Execute returns.
WriteRowUnflushed ==
  /\ pc \in {"header", "columns"} /\ todo = {}
  /\ written' = Append(written, outputRow(numColumns, output))
  /\ flushes' = flushes
  /\ pc' = "loop"
  /\ UNCHANGED <<t, buildVars, pipeVars, processHeader, lineLimit, input, linesRead, row, context, varIdx, output, todo, result, err, site>>

\* recipe.go:237-240 and 255-263: the row is written, and the writer is
\* flushed after every FlushEvery rows.
WriteRow ==
  /\ pc \in {"header", "columns"} /\ todo = {}
  /\ written' = Append(written, outputRow(numColumns, output))
  /\ flushes' = IF linesRead % FlushEvery = 0 THEN flushes + 1 ELSE flushes
  /\ pc' = "loop"
  /\ UNCHANGED <<t, buildVars, pipeVars, processHeader, lineLimit, input, linesRead, row, context, varIdx, output, todo, result, err, site>>

\* recipe.go:284-287: the writer refuses the row.
WriteError ==
  /\ pc \in {"header", "columns"} /\ todo = {}
  /\ Return(NilResult, <<"write error">>, Site("write", <<>>, 0))
  /\ UNCHANGED <<t, buildVars, pipeVars, processHeader, lineLimit, input, linesRead, row, context, varIdx, output, todo, written>>

Init ==
  /\ t \in Transformations
  /\ processHeader \in BOOLEAN
  /\ lineLimit \in (0 - 1)..MaxLimit
  /\ pc = "start"
  /\ linesRead = 0 /\ input = <<>> /\ row = <<>> /\ context = LineContext(EmptyMap, EmptyMap, 0)
  /\ varIdx = 0 /\ output = EmptyMap /\ todo = {} /\ written = <<>> /\ flushes = 0
  /\ result = NilResult /\ err = NoErr /\ site = NoSite
  /\ BuildIdle /\ PipeIdle

Next ==
  \/ Validate
  \/ LimitReached
  \/ ReadRow
  \/ ReadEOF
  \/ ReadError
  \/ EvalVariable
  \/ StartHeader
  \/ EvalHeader
  \/ StartColumns
  \/ EvalColumn
  \/ WriteRow
  \/ WriteError

Spec == Init /\ [][Next]_vars

\* Execute on a long input.
InitLong ==
  /\ t \in LongTransformations
  /\ processHeader \in BOOLEAN
  /\ lineLimit \in LongLimits
  /\ pc = "start"
  /\ linesRead = 0 /\ input = <<>> /\ row = <<>> /\ context = LineContext(EmptyMap, EmptyMap, 0)
  /\ varIdx = 0 /\ output = EmptyMap /\ todo = {} /\ written = <<>> /\ flushes = 0
  /\ result = NilResult /\ err = NoErr /\ site = NoSite
  /\ BuildIdle /\ PipeIdle

NextLong ==
  \/ Validate
  \/ LimitReached
  \/ ReadLine
  \/ ReadEOF
  \/ ReadError
  \/ EvalVariable
  \/ StartHeader
  \/ EvalHeader
  \/ StartColumns
  \/ EvalColumn
  \/ WriteRow
  \/ WriteError

SpecLong == InitLong /\ [][NextLong]_vars

(***************************************************************************)
(* The building of a Transformation, one call of the package's API at a    *)
(* time, from NewTransformation.                                           *)
(***************************************************************************)
BuildVarNames == {VarName(i) : i \in 1..MaxVars}

BuildColTexts == {ColText(i) : i \in 1..MaxCol} \cup {<<"x">>, <<"-", "1">>}

BuildHdrTexts == {ColText(1), ColText(MaxCol + 1)}

BuildTargets == ({Variable} \X BuildVarNames) \cup ({Column} \X BuildColTexts) \cup ({Header} \X BuildHdrTexts)

BuildOps == {C_value(ColArg(ColText(1))), C_join(getPlaceholderArg)}

Called_(fn, type, target) == [fn |-> fn, type |-> type, target |-> target]

BuildFrame == UNCHANGED <<pipeVars, execVars, pc, context, err>>

\* AddOutputToVariable, AddOutputToColumn or AddOutputToHeader is called.
CallAddOutput ==
  /\ pc = "build" /\ calls < MaxCalls
  /\ \E tg \in BuildTargets :
       /\ t' = AddOutputByType(t, tg[1], tg[2]).t
       /\ lastErr' = AddOutputByType(t, tg[1], tg[2]).err
       /\ lastCall' = Called_("AddOutput", tg[1], tg[2])
  /\ calls' = calls + 1
  /\ BuildFrame

\* AddOperationByType is called; it returns nothing.
CallAddOperation ==
  /\ pc = "build" /\ calls < MaxCalls
  /\ \E tg \in BuildTargets \cup {<<Literal, ColText(1)>>}, o \in BuildOps :
       /\ t' = AddOperationByType(t, tg[1], tg[2], o)
       /\ lastCall' = Called_("AddOperation", tg[1], tg[2])
  /\ lastErr' = NoErr
  /\ calls' = calls + 1
  /\ BuildFrame

\* ValidateRecipe is called.
CallValidate ==
  /\ pc = "build" /\ calls < MaxCalls
  /\ lastErr' \in ValidateRecipe(t)
  /\ lastCall' = Called_("ValidateRecipe", "none", <<>>)
  /\ calls' = calls + 1
  /\ UNCHANGED t
  /\ BuildFrame

InitBuild ==
  /\ t = NewTransformation
  /\ pc = "build"
  /\ context = LineContext(EmptyMap, EmptyMap, 0) /\ err = NoErr
  /\ BuildIdle /\ ExecIdle /\ PipeIdle

NextBuild == CallAddOutput \/ CallAddOperation \/ CallValidate

SpecBuild == InitBuild /\ [][NextBuild]_vars

(***************************************************************************)
(* One evaluation of a pipeline by processRecipe, one operation at a time. *)
(***************************************************************************)
Lit3 == LitArg(<<"3">>)
Col1 == ColArg(ColText(1))
Col2 == ColArg(ColText(2))
ColAbsent == ColArg(ColText(MaxFields + 1))
VarA == VarArg(VarName(1))

PipeOps ==
  {C_value(Col1), C_value(Col2), C_value(ColAbsent), C_value(VarA), C_value(Lit3), Op(N_value, <<>>),
   C_join(Col1), C_join(Col2), C_join(VarA), C_join(Lit3), C_join(getPlaceholderArg),
   Op(N_uppercase, <<getPlaceholderArg>>), Op(N_uppercase, <<>>), Op(N_lowercase, <<VarA>>),
   Op(N_firstChars, <<Lit3>>), Op(N_firstChars, <<Lit3, getPlaceholderArg>>), Op(N_firstChars, <<Lit3, Col1>>), Op(N_firstChars, <<>>),
   Op(N_repeat, <<>>),
   Op(N_add, <<Col1, Col2>>), Op(N_add, <<Col1>>), Op(N_add, <<Col1, Col1, ColAbsent>>),
   Op(N_numberformat, <<Col1, Lit3>>), Op(N_numberformat, <<Col1, Lit3, Col2>>), Op(N_numberformat, <<Col1, Lit3, ColAbsent>>),
   Op(N_lineno, <<>>), Op(N_nosuch, <<>>)}

Pipelines == UNION {[1..n -> PipeOps] : n \in 0..MaxPipe}

PipeRows == {<<<<"a", "b", "c", "d">>, <<>>>>, <<<<"2">>, <<"1">>>>}

PipeContexts == {LineContext(vs, r, 1) : vs \in {EmptyMap, Put(EmptyMap, VarName(1), <<"B">>)}, r \in PipeRows}

\* What one operation makes of the evaluation: it goes on with the next
\* operation, or it ends with the error (or the panic) of this one.
Stepped(r) ==
  IF r.kind = "ok"
  THEN st' = Locals(r) /\ ip' = ip + 1 /\ UNCHANGED <<pc, err>>
  ELSE pc' = (IF r.kind = "panic" THEN "panicked" ELSE "failed") /\ err' = r.err /\ st' = Locals(r) /\ UNCHANGED ip

\* recipe.go:298-561, one iteration of the loop.
Step ==
  /\ pc = "eval" /\ ip <= Len(recipe.Pipe)
  /\ Stepped(OpStep(recipeType, recipe, context, recipe.Pipe[ip], st))
  /\ UNCHANGED <<t, buildVars, execVars, recipeType, recipe, context>>

\* recipe.go:562: the pipeline is through, the placeholder is returned.
Finish ==
  /\ pc = "eval" /\ ip > Len(recipe.Pipe)
  /\ pc' = "returned"
  /\ UNCHANGED <<t, buildVars, execVars, pipeVars, context, err>>

InitPipe ==
  /\ recipeType = "column"
  /\ recipe \in {[Output |-> getOutputForColumn(ColText(1)), Pipe |-> p, Comment |-> <<>>] : p \in Pipelines}
  /\ context \in PipeContexts
  /\ ip = 1 /\ st = StartState
  /\ pc = "eval" /\ err = NoErr
  /\ t = NewTransformation
  /\ BuildIdle /\ ExecIdle

NextPipe == Step \/ Finish

SpecPipe == InitPipe /\ [][NextPipe]_vars

(***************************************************************************)
(* Properties.                                                             *)
(***************************************************************************)

\* A Transformation Execute must refuse: it has no column recipe, or an index
\* of 1..N (N the number of column recipes) has none, or a header is declared
\* for an index that has no column recipe.
Invalid(tr) ==
  \/ DOMAIN tr.Columns = {}
  \/ \E i \in 1..Cardinality(DOMAIN tr.Columns) : i \notin DOMAIN tr.Columns
  \/ \E h \in DOMAIN tr.Headers : h \notin DOMAIN tr.Columns

\* C1: Execute validates the Transformation before it touches the input: on
\* a Transformation with no column recipe, with a gap in 1..N or with a header
\* that has no column recipe, the only thing Execute does is return a
\* validation error and no result; no row is read and no row is written.
C1_ValidatesBeforeInput ==
  Invalid(t) /\ pc # "start" =>
    /\ pc = "done" /\ site.kind = "validate"
    /\ err # NoErr /\ result = NilResult
    /\ linesRead = 0 /\ written = <<>>

\* Execute has returned on a Transformation whose only fault is a header for
\* a column that has no recipe.
C1_Witness ==
  /\ pc = "done" /\ site.kind = "validate"
  /\ DOMAIN t.Columns = {1} /\ 2 \in DOMAIN t.Headers
  /\ err = <<"found header for column 2, but no recipe for column 2">>

\* The map a declaration of the given type goes to, and the key of a target
\* in it: the name of a variable, the number of a column or header.
MapOf(tr, type) == CASE type = Variable -> tr.Variables [] type = Column -> tr.Columns [] type = Header -> tr.Headers

KeyOf(type, target) == IF type = Variable THEN target ELSE Atoi(target)

AlreadyDefined(type, target) ==
  CASE type = Variable -> <<"variable " \o Str(target) \o " already defined">>
    [] type = Column -> <<"column " \o ToString(Atoi(target)) \o " already defined">>
    [] type = Header -> <<"header " \o ToString(Atoi(target)) \o " already defined">>

\* What a call of AddOutputTo* on a declared key must do, and on an absent one.
Redeclared(type, target) == t' = t /\ lastErr' = AlreadyDefined(type, target)

Declared(type, target) ==
  /\ lastErr' = NoErr
  /\ MapOf(t', type) = Put(MapOf(t, type), KeyOf(type, target), [Output |-> [Type |-> type, Value |-> target], Pipe |-> <<>>, Comment |-> <<>>])
  /\ \A other \in {Variable, Column, Header} \ {type} : MapOf(t', other) = MapOf(t, other)
  /\ t'.VariableOrder = t.VariableOrder

\* C2: AddOutputToColumn, AddOutputToHeader or AddOutputToVariable on a key
\* that is already declared returns 'column N already defined', 'header N
\* already defined' or 'variable $name already defined' and leaves the
\* Transformation as it was, the recipe and pipeline of the first declaration
\* included; on an absent key it returns no error and adds a recipe with an
\* empty pipeline.
C2_Redeclaration ==
  [][lastCall'.fn = "AddOutput" /\ calls' = calls + 1 =>
       IF KeyOf(lastCall'.type, lastCall'.target) \in DOMAIN MapOf(t, lastCall'.type)
       THEN Redeclared(lastCall'.type, lastCall'.target)
       ELSE Declared(lastCall'.type, lastCall'.target)]_vars

\* Column 1, which has a pipeline, has been declared again.
C2_Witness ==
  /\ lastCall = Called_("AddOutput", Column, ColText(1))
  /\ lastErr = <<"column 1 already defined">>
  /\ Len(t.Columns[1].Pipe) > 0

\* The variables declared before position i of VariableOrder.
Earlier(i) == {t.VariableOrder[j] : j \in 1..(i - 1)}

\* The position of a variable in VariableOrder.
PositionOf(v) == CHOOSE j \in 1..Len(t.VariableOrder) : t.VariableOrder[j] = v

\* The argument the recipe of the variable at position i refers to (the
\* variable recipes here are one value() of a column or of a variable).
Referred(i) == t.Variables[t.VariableOrder[i]].Pipe[1].Arguments[1]

\* What the variable at position i is on the row r: the input column it
\* refers to, or what the earlier variable it refers to is on that row.
RECURSIVE ValueOnRow(_, _)
ValueOnRow(i, r) ==
  IF Referred(i).Type = Column THEN r[Atoi(Referred(i).Value)]
  ELSE ValueOnRow(PositionOf(Referred(i).Value), r)

\* While the variable at position varIdx is the next one to evaluate, the
\* variables bound are exactly the earlier ones, to their results for the row.
EarlierBound ==
  /\ DOMAIN context.Variables = Earlier(varIdx)
  /\ \A j \in 1..(varIdx - 1) : context.Variables[t.VariableOrder[j]] = ValueOnRow(j, row)

\* The evaluation of the variable at position varIdx: its reference resolves
\* when it is to an input column or to an earlier variable, and the run ends
\* on the error of an undefined variable when it is to itself or a later one.
ReferenceResolves ==
  IF Referred(varIdx).Type = Column \/ Referred(varIdx).Value \in Earlier(varIdx)
  THEN /\ pc' = "vars" /\ varIdx' = varIdx + 1 /\ err' = NoErr
       /\ context'.Variables[t.VariableOrder[varIdx]] =
            (IF Referred(varIdx).Type = Column THEN row[Atoi(Referred(varIdx).Value)] ELSE context.Variables[Referred(varIdx).Value])
  ELSE /\ pc' = "done" /\ result' = NilResult
       /\ err' = <<"line " \o ToString(linesRead) \o " / variable " \o Str(t.VariableOrder[varIdx]) \o ":",
                   "variable '" \o Str(Referred(varIdx).Value) \o "' referenced, but it is not defined">>

\* C3: on every row the variables are evaluated in the order of
\* VariableOrder, before any header or column recipe of the row; while the
\* variable at position i is evaluated exactly the variables before i are
\* bound, to their results for this row; a reference to an earlier variable
\* or to an input column resolves, and a reference to the variable itself or
\* to a later one fails with "variable 'name' referenced, but it is not
\* defined".
C3_VariablesInOrder ==
  [][/\ pc' = "vars" => EarlierBound'
     /\ pc' \in {"header", "columns"} /\ pc = "vars" => varIdx = Len(t.VariableOrder) + 1 /\ EarlierBound
     /\ pc = "vars" /\ pc' \in {"vars", "done"} => varIdx <= Len(t.VariableOrder) /\ ReferenceResolves]_vars

\* On the second row the second variable, which refers to the first, has
\* been bound to what the first is on that row.
C3_Witness ==
  /\ pc = "vars" /\ linesRead = 2 /\ varIdx = 3
  /\ Referred(2) = VarArg(t.VariableOrder[1])
  /\ context.Variables[t.VariableOrder[2]] = row[1]

\* The run has ended on a variable that refers to a later one.
C3_WitnessLater ==
  /\ pc = "done" /\ site.kind = "variable" /\ varIdx = 1
  /\ Len(t.VariableOrder) = 2 /\ Referred(1) = VarArg(t.VariableOrder[2])

\* The operation the evaluation is at, and its name in lower case.
CurrentOp == recipe.Pipe[ip]

CurrentName == ToLower(CurrentOp.Name)

\* Whether an argument can be resolved on the row at hand.
Resolvable(a) ==
  CASE a.Type = Column -> Atoi(a.Value) \in DOMAIN context.Columns
    [] a.Type = Variable -> a.Value \in DOMAIN context.Variables
    [] OTHER -> TRUE

\* What an argument stands for when the running value is v.
Referent(a, v) ==
  CASE a.Type = Column -> context.Columns[Atoi(a.Value)]
    [] a.Type = Variable -> context.Variables[a.Value]
    [] a.Type = Literal -> a.Value
    [] a.Type = Placeholder -> v

\* The n arguments an operation is called with when the running value is v:
\* those it is given, `?` standing for v, and v for each one it lacks.
Threaded(o, n, v) == [i \in 1..n |-> IF i > Len(o.Arguments) THEN v ELSE Referent(o.Arguments[i], v)]

\* The first three characters of a text.
FirstThree(s) == IF Len(s) <= 3 THEN s ELSE <<s[1], s[2], s[3]>>

\* The step of an operation with an arity, on arguments that resolve, is the
\* call of the operation on the threaded arguments.
StepThreads(r) ==
  IF r.kind = "ok" \/ CurrentName = N_change
  THEN ip' = ip + 1 /\ st'.value = r.val /\ (st.mode = Replace => st'.placeholder = r.val)
  ELSE pc' = "failed"

\* `1 -> firstChars("3")` and `firstChars("3", 1)`
ImplicitFirstChars == <<C_value(Col1), Op(N_firstChars, <<Lit3>>)>>

ExplicitFirstChars == <<Op(N_firstChars, <<Lit3, Col1>>)>>

IsTerm(o, name) == o.Name = name /\ Len(o.Arguments) = 1 /\ o.Arguments[1].Type \in {Column, Variable, Literal}

\* The lowering of a stage t1 + t2 + ... + tk: value(t1), join(t2), ...,
\* join(tk), with terms that resolve on the row at hand.
IsStage(pipe) ==
  /\ Len(pipe) >= 1 /\ IsTerm(pipe[1], N_value)
  /\ \A i \in 2..Len(pipe) : IsTerm(pipe[i], N_join)
  /\ \A i \in 1..Len(pipe) : Resolvable(pipe[i].Arguments[1])

\* The values of the terms of a stage.
TermValues(pipe) == [i \in 1..Len(pipe) |-> Referent(pipe[i].Arguments[1], <<>>)]

\* The values i..n concatenated, grouped from the right: vi + (... + vn).
RECURSIVE Concat(_, _, _)
Concat(values, i, n) == IF i > n THEN <<>> ELSE values[i] \o Concat(values, i + 1, n)

\* A sequence without its element i.
Without(s, i) == SubSeq(s, 1, i - 1) \o SubSeq(s, i + 1, Len(s))

\* C5: a stage t1 + t2 + ... + tk of columns, variables and literals is the
\* values of the terms concatenated in order: each step sets the placeholder
\* to the placeholder followed by the value of the term and leaves the mode
\* at Replace; a term whose value is empty contributes nothing, and the
\* grouping of the terms makes no difference.
C5_Concatenation ==
  [][/\ pc = "eval" /\ ip <= Len(recipe.Pipe) /\ IsStage(recipe.Pipe)
        => /\ ip' = ip + 1 /\ st'.mode = Replace
           /\ st'.placeholder = st.placeholder \o TermValues(recipe.Pipe)[ip]
           /\ st'.placeholder = Concat(TermValues(recipe.Pipe), 1, ip)
     /\ pc' = "returned" /\ IsStage(recipe.Pipe)
        => /\ st.placeholder = Concat(TermValues(recipe.Pipe), 1, Len(recipe.Pipe))
           /\ \A i \in 1..Len(recipe.Pipe) :
                TermValues(recipe.Pipe)[i] = <<>> =>
                  st.placeholder = Concat(Without(TermValues(recipe.Pipe), i), 1, Len(recipe.Pipe) - 1)]_vars

\* `1 + 2 + "3"` has returned on a row whose column 2 is empty.
C5_Witness ==
  /\ pc = "returned" /\ recipe.Pipe = <<C_value(Col1), C_join(Col2), C_join(Lit3)>>
  /\ context.Columns[1] = <<"a", "b", "c", "d">> /\ context.Columns[2] = <<>>
  /\ st.placeholder = <<"a", "b", "c", "d", "3">>

\* The evaluation a run ended on: that of the recipe of the variable, header
\* or column the site names, on the context of the row.
EvaluationAt(s, ctx) ==
  CASE s.kind = "variable" -> processRecipe("variable", t.Variables[s.name], ctx)
    [] s.kind = "header" -> processRecipe("header", t.Headers[s.index], ctx)
    [] s.kind = "column" -> processRecipe("column", t.Columns[s.index], ctx)

\* The kind of recipe each part of the loop body evaluates.
KindAt(p) == CASE p = "vars" -> "variable" [] p = "header" -> "header" [] p = "columns" -> "column"

\* The step is the return of Execute on the failure of an evaluation.
EvaluationFails == pc \in {"vars", "header", "columns"} /\ pc' = "done" /\ site'.kind # "write"

\* C6: the first failure ends the run: when the evaluation of a variable,
\* header or column recipe fails on row k, Execute returns that error and no
\* result, writes no row for row k, reads no row after it, and the rows
\* written are those of rows 1..k-1; no failing recipe is passed over, and
\* nothing happens after the return.
C6_FirstFailureAborts ==
  [][/\ pc # "done"
     /\ EvaluationFails =>
          /\ site'.kind = KindAt(pc)
          /\ EvaluationAt(site', context).kind = "err"
          /\ err' = EvaluationAt(site', context).err /\ err' # NoErr
          /\ result' = NilResult
          /\ written' = written /\ Len(written) = linesRead - 1
          /\ linesRead' = linesRead
     /\ pc = "vars" /\ pc' = "vars" => EvaluationAt(Site("variable", t.VariableOrder[varIdx], 0), context).kind = "ok"
     /\ pc \in {"header", "columns"} /\ pc' = pc =>
          \E k \in todo : todo' = todo \ {k} /\ EvaluationAt(Site(KindAt(pc), <<>>, k), context).kind = "ok"
     /\ pc \in {"header", "columns"} /\ pc' = "loop" => Len(written') = linesRead /\ todo = {}]_vars

\* The run has ended on a column recipe that failed on the second row, with
\* the row of the first row written and no other.
C6_Witness ==
  /\ pc = "done" /\ site.kind = "column" /\ result = NilResult
  /\ linesRead = 2 /\ Len(written) = 1
  /\ err = <<"line 2 / column " \o ToString(site.index) \o ":", "column 2 referenced, but it does not exist in the input">>

\* The target of a site as the prefix spells it: the name of the variable,
\* the index of the header or column.
TargetOf(s) == IF s.kind = "variable" THEN Str(s.name) ELSE ToString(s.index)

\* C7: every evaluation error starts with its site, `line L / <kind>
\* <target>:`, L being the number of rows read so far (the header row is line
\* 1), <kind> variable, header or column after the recipe that was run, and
\* <target> the name of the variable or the index of the header or column.
C7_ErrorPrefix ==
  pc = "done" /\ site.kind \in {"variable", "header", "column"} =>
    /\ linesRead >= 1 /\ Len(err) >= 2
    /\ err[1] = "line " \o ToString(linesRead) \o " / " \o site.kind \o " " \o TargetOf(site) \o ":"

\* The run has ended on the failure of add in the recipe of column 1 on the
\* second row.
C7_Witness ==
  /\ pc = "done" /\ site.kind = "column" /\ linesRead = 2
  /\ Render(err) = "line 2 / column 1: add(): first arg to Add was not numeric: a"

\* The run has ended on the header recipe of column 1.
C7_WitnessHeader ==
  /\ pc = "done" /\ site.kind = "header"
  /\ Render(err) = "line 1 / header 1: column 2 referenced, but it does not exist in the input"

\* The operations of the catalog that take arguments, and the number of
\* arguments the evaluator resolves for each.
TakesArgs(name) == name \in {N_value, N_join, N_uppercase, N_lowercase} \/ UsesProcessArgs(name)

Resolved(name) == IF UsesProcessArgs(name) THEN NumArgs(name) ELSE 1

\* The arguments of the current operation that are resolved and cannot be.
BadArgs == {i \in 1..Len(CurrentOp.Arguments) : i <= Resolved(CurrentName) /\ ~Resolvable(CurrentOp.Arguments[i])}

\* The error of a reference that does not resolve.
ReferenceError(a) ==
  IF a.Type = Column THEN "column " \o ToString(Atoi(a.Value)) \o " referenced, but it does not exist in the input"
  ELSE "variable '" \o Str(a.Value) \o "' referenced, but it is not defined"

\* The evaluation failed in the current operation, on the first of its
\* arguments that does not resolve.
ArgumentFailed == pc = "failed" /\ TakesArgs(CurrentName) /\ BadArgs # {}

FirstBadArg == CurrentOp.Arguments[Min(BadArgs)]

\* The evaluation failed in the current operation itself.
OperationFailed == pc = "failed" /\ UsesProcessArgs(CurrentName) /\ BadArgs = {}

SitePrefix == "line " \o ToString(context.LineNo) \o " / " \o recipeType \o " " \o Str(recipe.Output.Value) \o ":"

NamedArgError == <<SitePrefix, Str(CurrentName) \o "(): error evaluating arg:", ReferenceError(FirstBadArg)>>

OperationError == <<SitePrefix, Str(CurrentName) \o "():">> \o Call(CurrentName, Threaded(CurrentOp, NumArgs(CurrentName), st.placeholder)).err

\* The claim as it stands: the failure to resolve an argument of any
\* operation that takes arguments, value and join included, is reported as
\* `NAME(): error evaluating arg: UNDERLYING` after the site prefix, and a
\* failure of the operation itself as `NAME(): DETAIL`.
C8_AsClaimed ==
  /\ ArgumentFailed => err = NamedArgError
  /\ OperationFailed => err = OperationError

\* C8 (amended): the failure to resolve an argument of an operation that
\* takes arguments is reported after the site prefix as `NAME(): error
\* evaluating arg: UNDERLYING`, NAME the name of the operation in lower case,
\* for every operation but value and join, which report UNDERLYING alone after
\* the site prefix; a failure of the operation itself is reported as `NAME():
\* DETAIL`.
C8_ArgumentErrors ==
  /\ ArgumentFailed =>
       IF CurrentName \in {N_value, N_join} THEN err = <<SitePrefix, ReferenceError(FirstBadArg)>>
       ELSE err = NamedArgError
  /\ OperationFailed => err = OperationError

\* lowercase has failed on a variable that is not bound.
C8_Witness ==
  /\ pc = "failed" /\ CurrentOp = Op(N_lowercase, <<VarA>>)
  /\ Render(err) = "line 1 / column 1: lowercase(): error evaluating arg: variable '$a' referenced, but it is not defined"

\* join has failed on a variable that is not bound, and firstChars on a
\* count that is no number.
C8_WitnessJoin ==
  /\ pc = "failed" /\ CurrentOp = C_join(VarA)
  /\ Render(err) = "line 1 / column 1: variable '$a' referenced, but it is not defined"

C8_WitnessOperation ==
  /\ pc = "failed" /\ CurrentOp = Op(N_firstChars, <<>>)
  /\ Render(err) = "line 1 / column 1: firstchars(): first arg is not an integer: got 'abcd'"

\* The row of the last row read has been written and the next is not read
\* yet: row and context are still those of that row.
RowWritten == pc = "loop" /\ linesRead >= 1 /\ Len(written) = linesRead

\* The last row read is the header row.
IsHeaderRow == processHeader /\ linesRead = 1

\* Field i of the header row.
HeaderField(i) ==
  IF i \in DOMAIN t.Headers THEN processRecipe("header", t.Headers[i], context).val
  ELSE IF i <= Len(row) THEN row[i]
  ELSE <<"c", "o", "l", "u", "m", "n", " ">> \o Itoa(i)

\* C9: with header processing on, the row written for the first input row
\* has N fields, N the number of column recipes, and field i is the result of
\* the recipe of header i on the first row if header i is declared, else
\* field i of the input row if it has one, else the text `column i`; no
\* column recipe is evaluated for that row.
C9_HeaderRow ==
  /\ IsHeaderRow => pc # "columns" /\ site.kind # "column"
  /\ IsHeaderRow /\ RowWritten =>
       /\ Len(written[1]) = Cardinality(DOMAIN t.Columns)
       /\ \A i \in 1..Cardinality(DOMAIN t.Columns) : written[1][i] = HeaderField(i)

\* The header row of two columns has been written from a row of two fields:
\* header 1 is declared (column 2 in upper case), header 2 is not.
C9_Witness ==
  /\ IsHeaderRow /\ RowWritten
  /\ DOMAIN t.Columns = {1, 2} /\ row = <<<<"4", "2">>, <<"a">>>>
  /\ DOMAIN t.Headers = {1}
  /\ written[1] = <<<<"A">>, <<"a">>>>

\* The header row has a synthetic field: the input row is shorter than the
\* output, and column 2 has a recipe that fails on this row.
C9_WitnessSynthetic ==
  /\ IsHeaderRow /\ RowWritten
  /\ DOMAIN t.Columns = {1, 2} /\ row = <<<<"a">>>> /\ DOMAIN t.Headers = {}
  /\ processRecipe("column", t.Columns[2], context).kind = "err"
  /\ written[1] = <<<<"a">>, <<"c", "o", "l", "u", "m", "n", " ", "2">>>>

\* C10: for every input row that is not the header row (header processing
\* off, or the second row and later) the row written has exactly N fields, N
\* the number of column recipes, and field i is the result of the recipe of
\* column i on that row, in whatever order the recipes are evaluated.
C10_DataRow ==
  RowWritten /\ ~IsHeaderRow =>
    /\ Len(written[linesRead]) = Cardinality(DOMAIN t.Columns)
    /\ \A i \in 1..Cardinality(DOMAIN t.Columns) :
         /\ processRecipe("column", t.Columns[i], context).kind = "ok"
         /\ written[linesRead][i] = processRecipe("column", t.Columns[i], context).val

\* The second row has been written from two column recipes: column 1 is the
\* line number plus column 1, column 2 is column 2.
C10_Witness ==
  /\ RowWritten /\ linesRead = 2 /\ ~processHeader
  /\ row = <<<<"4", "2">>, <<"a">>>> /\ DOMAIN t.Columns = {1, 2}
  /\ t.Columns[1].Pipe = <<Op(N_lineno, <<>>), Op(N_add, <<ColArg(ColText(1))>>)>>
  /\ t.Columns[2].Pipe = <<C_value(ColArg(ColText(2)))>>
  /\ written[2] = <<<<"4", "4", ".", "0", "0", "0", "0", "0", "0">>, <<"a">>>>

\* Execute has returned a result and no error.
Succeeded == pc = "done" /\ err = NoErr

\* C11: on a successful return Execute reports HeaderLines = 1 when header
\* processing is on and 0 when it is off, and Lines = the number of input
\* rows read less HeaderLines.
C11_ResultCounts ==
  Succeeded =>
    /\ ~result.nil
    /\ result.HeaderLines = (IF processHeader THEN 1 ELSE 0)
    /\ result.Lines = linesRead - result.HeaderLines

\* Execute has returned after a header row and one data row.
C11_Witness ==
  /\ Succeeded /\ processHeader /\ linesRead = 2 /\ Len(written) = 2
  /\ result = [nil |-> FALSE, HeaderLines |-> 1, Lines |-> 1]

\* The context of row r, the k-th of the input, once the variables are bound
\* from variable i on.
RECURSIVE BoundFrom(_, _)
BoundFrom(i, ctx) ==
  IF i > Len(t.VariableOrder) THEN ctx
  ELSE BoundFrom(i + 1, [ctx EXCEPT !.Variables = Put(@, t.VariableOrder[i], processRecipe("variable", t.Variables[t.VariableOrder[i]], ctx).val)])

RowContext(r, k) == BoundFrom(1, LineContext(EmptyMap, [i \in 1..Len(r) |-> r[i]], k))

\* What the header row is made of on the context ctx of row r.
HeaderOf(r, ctx) ==
  [i \in 1..Cardinality(DOMAIN t.Columns) |->
     IF i \in DOMAIN t.Headers THEN processRecipe("header", t.Headers[i], ctx).val
     ELSE IF i <= Len(r) THEN r[i]
     ELSE <<"c", "o", "l", "u", "m", "n", " ">> \o Itoa(i)]

\* The output row of row r, the k-th of the input.
ExpectedRow(r, k) ==
  IF processHeader /\ k = 1 THEN HeaderOf(r, RowContext(r, k))
  ELSE [i \in 1..Cardinality(DOMAIN t.Columns) |-> processRecipe("column", t.Columns[i], RowContext(r, k)).val]

\* The line limit is on and as many rows as it allows are read.
AtLimit == lineLimit > 0 /\ linesRead >= lineLimit

\* C12: with line limit L > 0 and no error Execute reads exactly min(L,
\* number of input rows) rows, the header row counting: no row is read once L
\* rows are, and Execute then returns normally; before that, and always with
\* L <= 0, it goes on to the end of the input, which is a normal return and
\* no error; one row is written for each row read, in the order of the input.
C12_LineLimit ==
  [][/\ linesRead' = linesRead + 1 => ~AtLimit
     /\ pc = "loop" /\ AtLimit => pc' = "done" /\ err' = NoErr /\ ~result'.nil /\ linesRead' = linesRead
     /\ pc = "loop" /\ pc' = "done" /\ site'.kind = "end" => err' = NoErr /\ ~result'.nil /\ linesRead' = linesRead
     /\ pc' = "done" /\ err' = NoErr =>
          /\ lineLimit > 0 => linesRead <= lineLimit
          /\ Len(written) = linesRead /\ Len(input) = linesRead
          /\ \A k \in 1..linesRead : written[k] = ExpectedRow(input[k], k)]_vars

\* Execute has returned at a line limit of 1, after one row.
C12_Witness == Succeeded /\ lineLimit = 1 /\ linesRead = 1 /\ Len(written) = 1

\* Execute has returned at the end of an input of two rows, with a negative
\* line limit.
C12_WitnessNoLimit == Succeeded /\ lineLimit = 0 - 1 /\ linesRead = 2 /\ Len(written) = 2 /\ written[1] # written[2]

\* ValidateRecipe was the last call and it accepted the Transformation.
Accepted == lastCall.fn = "ValidateRecipe" /\ lastErr = NoErr

\* C13: a Transformation that ValidateRecipe accepts, with N column recipes,
\* has the column keys 1..N and no other (no key 0, no negative key, no key
\* above N), whatever declarations built it, and every header key is one of
\* 1..N.
C13_ColumnsDense ==
  Accepted =>
    /\ DOMAIN t.Columns = 1..Cardinality(DOMAIN t.Columns)
    /\ DOMAIN t.Headers \subseteq 1..Cardinality(DOMAIN t.Columns)

\* ValidateRecipe has accepted columns 1 and 2.
C13_Witness == Accepted /\ DOMAIN t.Columns = {1, 2}

\* ValidateRecipe has refused a Transformation with the column keys 0 and 1.
C13_WitnessRefused ==
  /\ lastCall.fn = "ValidateRecipe" /\ DOMAIN t.Columns = {0, 1}
  /\ lastErr = <<"missing column definition for column #2">>

\* `X + ?` and `X + ? + ?` as section 4.2 of the spec lowers them, X being
\* column 1: each term after the first is a join of that term.
PlusPlaceholder == <<C_value(Col1), C_join(getPlaceholderArg)>>

PlusPlaceholderTwice == <<C_value(Col1), C_join(getPlaceholderArg), C_join(getPlaceholderArg)>>

\* C14: the recipe `X + ?`, lowered to the value of X and a join of the
\* Placeholder, evaluates to the value of X twice over, and `X + ? + ?` to
\* four copies of the value of X.
C14_DoubleConcatenation ==
  pc = "returned" =>
    /\ recipe.Pipe = PlusPlaceholder => st.placeholder = context.Columns[1] \o context.Columns[1]
    /\ recipe.Pipe = PlusPlaceholderTwice =>
         st.placeholder = context.Columns[1] \o context.Columns[1] \o context.Columns[1] \o context.Columns[1]

\* What the evaluator returns for the two: the value of X, once.
C14_Evaluated ==
  /\ pc = "returned" /\ recipe.Pipe \in {PlusPlaceholder, PlusPlaceholderTwice}
  /\ context.Columns[1] = <<"a", "b", "c", "d">>
  /\ st.placeholder = <<"a", "b", "c", "d">> /\ st.mode = Join

\* Execute returns in this step.
Returning == pc # "done" /\ pc' = "done"

\* The processing of an input row ends in this step: its output row is
\* written.  The 1-based number of that row is Len(input).
RowProcessed == Len(written') = Len(written) + 1

\* C15: Execute flushes the writer after processing every input row whose
\* 1-based number is a multiple of 100, once more when it returns (at the
\* normal end, on a validation error, a read error, an evaluation error),
\* and at no other step.
C15_Flushes ==
  [][/\ Returning => flushes' = flushes + 1
     /\ RowProcessed => flushes' = flushes + (IF Len(input) % 100 = 0 THEN 1 ELSE 0)
     /\ ~Returning /\ ~RowProcessed => flushes' = flushes]_vars

\* Execute has ended normally after 200 rows and has flushed the writer
\* after rows 100 and 200 and on returning.
C15_Witness == Succeeded /\ Len(written) = 200 /\ flushes = 3

\* The reader failed after row 100: one flush after row 100, one on
\* returning.
C15_WitnessReadError == pc = "done" /\ site.kind = "read" /\ linesRead = 100 /\ flushes = 2

\* A column recipe failed on row 1: the one flush of the return.
C15_WitnessEvaluationError == pc = "done" /\ site.kind = "column" /\ linesRead = 1 /\ flushes = 1

\* The recipe was refused: the one flush of the return.
C15_WitnessRefused == pc = "done" /\ site.kind = "validate" /\ flushes = 1

\* The header or column recipes a run that ended at site s was evaluating.
RecipesAt(s) == IF s.kind = "header" THEN t.Headers ELSE t.Columns

\* The recipe of index c of those fails on the context of the row.
FailsAt(s, c) == processRecipe(s.kind, RecipesAt(s)[c], context).kind # "ok"

\* C16: the headers and columns of a row are evaluated in ascending index
\* order, so the outcome of a row is determined by the recipe and the row:
\* when Execute returns the error of a header or column recipe, no recipe
\* of a lower index fails on that row.
C16_LowestIndexFails ==
  pc = "done" /\ site.kind \in {"header", "column"} =>
    \A c \in DOMAIN RecipesAt(site) : c < site.index => ~FailsAt(site, c)

\* Execute has returned the error of column 2 on a row on which the recipe
\* of column 1 fails as well.
C16_HigherIndexFailed ==
  /\ pc = "done" /\ site.kind = "column" /\ site.index = 2
  /\ FailsAt(site, 1)

\* The names of the variables bound before variable i of the declaration
\* order is evaluated.
BoundBefore(i) == {t.VariableOrder[j] : j \in 1..(i - 1)}

\* C17: the context of a row is made anew: when a row is read the context
\* holds no variable, the fields of that row and no other column, and the
\* number of the row; while the row is processed it holds only the variables
\* evaluated on this row; and the row written for it is what the recipes
\* give on the fields of the row, the variables bound on it and its number,
\* whatever rows came before.
C17_FreshContext ==
  [][/\ linesRead' = linesRead + 1 =>
          /\ DOMAIN context'.Variables = {}
          /\ context'.Columns = [i \in 1..Len(row') |-> row'[i]]
          /\ context'.LineNo = linesRead'
          /\ row' = input'[linesRead']
     /\ pc' \in {"vars", "header", "columns"} =>
          /\ DOMAIN context'.Variables = BoundBefore(varIdx')
          /\ DOMAIN context'.Columns = 1..Len(row')
          /\ context'.LineNo = linesRead'
     /\ Len(written') = Len(written) + 1 =>
          /\ context = RowContext(row, linesRead)
          /\ written'[Len(written')] = ExpectedRow(row, linesRead)]_vars

\* Row 2 is being processed after a longer row 1: the variable is bound to
\* the field of row 2 and column 2 of row 1 is not in the context.
C17_Witness ==
  /\ pc = "columns" /\ linesRead = 2 /\ Len(input[1]) = 2 /\ Len(input[2]) = 1
  /\ input[1][1] # input[2][1]
  /\ DOMAIN context.Variables = {VarName(1)}
  /\ context.Variables[VarName(1)] = input[2][1]
  /\ DOMAIN context.Columns = {1}

\* The operation at hand is a join with an argument.
AtJoin == pc = "eval" /\ ip <= Len(recipe.Pipe) /\ CurrentName = N_join /\ Len(CurrentOp.Arguments) >= 1

\* It is the deferred join, join(?).
Deferred == AtJoin /\ CurrentOp.Arguments[1].Type = Placeholder

DeferredPipe == <<C_value(Col1), C_join(getPlaceholderArg), C_value(Col1)>>

\* C18: a join whose argument is the Placeholder leaves the running value
\* as it is and the mode at Join, so that the value of the operation after
\* it is appended to the running value and not put in its place (`1 -> join
\* -> 1` is column 1 twice); a join of a column, variable or literal appends
\* the value of its argument at once and leaves the mode at Replace.
C18_DeferredJoin ==
  [][/\ Deferred =>
          /\ pc' = "eval" /\ ip' = ip + 1
          /\ st'.placeholder = st.placeholder /\ st'.mode = Join
     /\ AtJoin /\ ~Deferred /\ Resolvable(CurrentOp.Arguments[1]) =>
          /\ pc' = "eval" /\ ip' = ip + 1
          /\ st'.placeholder = st.placeholder \o Referent(CurrentOp.Arguments[1], st.placeholder)
          /\ st'.mode = Replace
     /\ pc = "eval" /\ st.mode = Join /\ ip' = ip + 1 /\ ~Deferred =>
          /\ st'.placeholder = st.placeholder \o st'.value
          /\ st'.mode = Replace
          /\ CurrentName = N_value => st'.value = Referent(CurrentOp.Arguments[1], st.placeholder)
     /\ pc' = "returned" /\ recipe.Pipe = DeferredPipe =>
          st.placeholder = context.Columns[1] \o context.Columns[1]]_vars

\* `1 -> join -> 1` has returned abcdabcd on a row whose column 1 is abcd.
C18_Witness ==
  /\ pc = "returned" /\ recipe.Pipe = DeferredPipe
  /\ context.Columns[1] = <<"a", "b", "c", "d">>
  /\ st.placeholder = <<"a", "b", "c", "d", "a", "b", "c", "d">>

\* A join of a literal has appended it to the running value at once.
C18_WitnessAtOnce ==
  /\ pc = "returned" /\ recipe.Pipe = <<C_value(Col1), C_join(Lit3), C_value(Col1)>>
  /\ context.Columns[1] = <<"a", "b", "c", "d">>
  /\ st.placeholder = <<"a", "b", "c", "d">>

\* The arity of the operations of the catalog that take arguments.
Arity(opName) ==
  CASE opName \in {N_value, N_join, N_uppercase, N_lowercase} -> 1
    [] opName \in {N_add, N_numberformat, N_firstchars, N_repeat} -> 2
    [] opName = N_change -> 3

HasArity(opName) == opName \in {N_value, N_join, N_uppercase, N_lowercase, N_add, N_numberformat, N_firstchars, N_repeat, N_change}

\* The operation at hand is given fewer arguments than its arity.
Short == pc = "eval" /\ ip <= Len(recipe.Pipe) /\ HasArity(CurrentName) /\ Len(CurrentOp.Arguments) < Arity(CurrentName)

\* An operation with its argument list padded with Placeholder to n.
Padded(o, n) == [o EXCEPT !.Arguments = @ \o [i \in 1..(n - Len(@)) |-> getPlaceholderArg]]

\* The step does what the evaluation r of an operation does.
StepIs(r) ==
  IF r.kind = "ok" THEN pc' = "eval" /\ ip' = ip + 1 /\ st' = Locals(r)
  ELSE pc' = "failed" /\ err' = r.err

\* C19: an operation of the catalog given fewer arguments than its arity,
\* none at all included, value, join, uppercase and lowercase included, is
\* evaluated as the same operation with Placeholder for each missing
\* argument, and the evaluation does not crash.
C19_ArityPadding ==
  [][Short => StepIs(OpStep(recipeType, recipe, context, Padded(CurrentOp, Arity(CurrentName)), st))]_vars

\* The evaluation of `1 -> uppercase`, uppercase with no argument, has
\* crashed.
C19_Crashed ==
  /\ pc = "panicked" /\ recipe.Pipe = <<C_value(Col1), Op(N_uppercase, <<>>)>>
  /\ ip = 2 /\ st.placeholder = <<"a", "b", "c", "d">>

\* The operations padded by processArgs are evaluated as the claim says.
C19_Padded ==
  [][Short /\ UsesProcessArgs(CurrentName) => StepIs(OpStep(recipeType, recipe, context, Padded(CurrentOp, Arity(CurrentName)), st))]_vars

\* The operation at hand is a numberformat or an add with more than two
\* arguments.
ExtraArgument == pc = "eval" /\ ip <= Len(recipe.Pipe) /\ CurrentName \in {N_numberformat, N_add} /\ Len(CurrentOp.Arguments) > 2

\* An operation with its first two arguments only.
FirstTwo(o) == [o EXCEPT !.Arguments = SubSeq(@, 1, 2)]

\* C20: numberformat and add use their first two arguments only: with a
\* third argument, whatever its value and whether or not it can be
\* resolved, the operation is evaluated as it is without it.
C20_ExtraArgumentIgnored ==
  [][ExtraArgument => StepIs(OpStep(recipeType, recipe, context, FirstTwo(CurrentOp), st))]_vars

\* numberformat(1, "3", column 3) has failed on a row that has no column 3,
\* where numberformat(1, "3") gives 2.000.
C20_ThirdArgumentFailed ==
  /\ pc = "failed" /\ recipe.Pipe = <<Op(N_numberformat, <<Col1, Lit3, ColAbsent>>)>>
  /\ context.Columns[1] = <<"2">>
  /\ OpStep(recipeType, recipe, context, Op(N_numberformat, <<Col1, Lit3>>), StartState).placeholder = <<"2", ".", "0", "0", "0">>

\* The third argument is ignored by add, and by numberformat when it can be
\* resolved.
C20_IgnoredWhenResolved ==
  [][ExtraArgument /\ (CurrentName = N_add \/ Resolvable(CurrentOp.Arguments[3]))
       => StepIs(OpStep(recipeType, recipe, context, FirstTwo(CurrentOp), st))]_vars

\* The names in a variable order.
Names(order) == {order[i] : i \in 1..Len(order)}

\* No name is twice in it.
Distinct(order) == \A i, j \in 1..Len(order) : order[i] = order[j] => i = j

\* C21: after any sequence of AddOutputToVariable, AddOperationToVariable
\* and AddOperationByType calls on a new Transformation, VariableOrder holds
\* exactly the keys of Variables, each once, in the order of their first
\* declaration: a call that declares a variable appends its name, and no
\* other call changes the order.
C21_VariableOrder ==
  [][/\ Names(t'.VariableOrder) = DOMAIN t'.Variables
     /\ Distinct(t'.VariableOrder)
     /\ \A v \in DOMAIN t'.Variables \ DOMAIN t.Variables : t'.VariableOrder = Append(t.VariableOrder, v)
     /\ DOMAIN t'.Variables = DOMAIN t.Variables => t'.VariableOrder = t.VariableOrder]_vars

\* AddOutputToVariable has declared $a and VariableOrder is empty.
C21_Undeclared ==
  /\ lastCall = Called_("AddOutput", Variable, VarName(1)) /\ lastErr = NoErr
  /\ DOMAIN t.Variables = {VarName(1)}
  /\ t.VariableOrder = <<>>

\* AddOperationByType has declared $a by its first operation and
\* VariableOrder is empty.
C21_UndeclaredByOperation ==
  /\ lastCall = Called_("AddOperation", Variable, VarName(1)) /\ calls = 1
  /\ DOMAIN t.Variables = {VarName(1)}
  /\ t.VariableOrder = <<>>

\* The lengths of the argument lists of the operations of the recipes of a
\* map.
ArgumentCounts(m) == [k \in DOMAIN m |-> [i \in 1..Len(m[k].Pipe) |-> Len(m[k].Pipe[i].Arguments)]]

\* C22: Execute never changes the Transformation: no step of a run, whether
\* the run succeeds or fails, changes Variables, Columns, Headers or
\* VariableOrder, nor the argument list of any operation, the length of the
\* list of an operation that was padded while it was evaluated included.
C22_TransformationKept ==
  [][/\ t'.Variables = t.Variables /\ t'.Columns = t.Columns /\ t'.Headers = t.Headers
     /\ t'.VariableOrder = t.VariableOrder
     /\ ArgumentCounts(t'.Variables) = ArgumentCounts(t.Variables)
     /\ ArgumentCounts(t'.Columns) = ArgumentCounts(t.Columns)
     /\ ArgumentCounts(t'.Headers) = ArgumentCounts(t.Headers)]_vars

\* Execute has returned after two rows on which `lineno -> add(1)` was
\* evaluated, add padded to two arguments: add has its one argument.
C22_Witness ==
  /\ Succeeded /\ Len(written) = 2 /\ ~processHeader
  /\ DOMAIN t.Columns = {1}
  /\ t.Columns[1].Pipe = <<Op(N_lineno, <<>>), Op(N_add, <<ColArg(ColText(1))>>)>>
  /\ Len(t.Columns[1].Pipe[2].Arguments) = 1

\* Execute has failed on a row on which add was padded and could not add.
C22_WitnessFailed ==
  /\ pc = "done" /\ site.kind = "column" /\ linesRead = 2
  /\ DOMAIN t.Columns = {1}
  /\ t.Columns[1].Pipe = <<Op(N_lineno, <<>>), Op(N_add, <<ColArg(ColText(1))>>)>>

\* An operation that is a join with the Placeholder argument.
IsDeferredJoin(o) == ToLower(o.Name) = N_join /\ Len(o.Arguments) >= 1 /\ o.Arguments[1].Type = Placeholder

\* The pipeline ends with one.
EndsDeferred == Len(recipe.Pipe) >= 1 /\ IsDeferredJoin(recipe.Pipe[Len(recipe.Pipe)])

\* A recipe without the last operation of its pipeline.
Front(r) == [r EXCEPT !.Pipe = SubSeq(r.Pipe, 1, Len(r.Pipe) - 1)]

\* C23: while a pipeline is evaluated the mode is Replace or Join; it is
\* Join at the start of an operation, or at the end of the pipeline, only
\* when the operation just before was a join with the Placeholder argument;
\* no evaluation fails with `invalid join mode`; and a pipeline that ends
\* with such a join returns what the pipeline without it returns.
C23_JoinMode ==
  /\ st.mode \in {Replace, Join}
  /\ pc = "eval" /\ st.mode = Join => ip > 1 /\ IsDeferredJoin(recipe.Pipe[ip - 1])
  /\ pc = "failed" =>
       /\ err # <<"invalid join mode " \o st.mode>>
       /\ Len(err) >= 2 /\ err[1] = errorPrefix(recipeType, recipe, context)
  /\ pc = "returned" /\ EndsDeferred =>
       /\ processRecipe(recipeType, Front(recipe), context).kind = "ok"
       /\ st.placeholder = processRecipe(recipeType, Front(recipe), context).val

\* value(1), join("3"), join(?) has returned abcd3, what value(1), join("3")
\* returns, with the mode at Join.
C23_Witness ==
  /\ pc = "returned" /\ recipe.Pipe = <<C_value(Col1), C_join(Lit3), C_join(getPlaceholderArg)>>
  /\ context.Columns[1] = <<"a", "b", "c", "d">>
  /\ st.placeholder = <<"a", "b", "c", "d", "3">> /\ st.mode = Join

\* The operation after a join(?) is about to start, the mode at Join.
C23_WitnessJoin ==
  /\ pc = "eval" /\ ip = 3 /\ Len(recipe.Pipe) = 3 /\ st.mode = Join
  /\ recipe.Pipe[2] = C_join(getPlaceholderArg) /\ recipe.Pipe[3] = C_join(Lit3)

\* A join has failed on its argument, after the mode was set to Join.
C23_WitnessFailed ==
  /\ pc = "failed" /\ st.mode = Join /\ recipe.Pipe[ip] = C_join(VarA)

\* The number of rows written that are not the header row.
DataRowsWritten == Len(written) - (IF processHeader /\ Len(written) >= 1 THEN 1 ELSE 0)

\* C24: on every successful return of Execute, Lines is the number of
\* output rows written that are not the header row, and it is not
\* negative, also when header processing is on and the input has no rows
\* or the line limit stops the run at the header.
C24_DataLines ==
  Succeeded => result.Lines = DataRowsWritten /\ result.Lines >= 0

\* Execute has returned Lines = -1 and HeaderLines = 1 on an input without
\* rows, with header processing on.
C24_Negative ==
  /\ Succeeded /\ processHeader /\ linesRead = 0 /\ written = <<>>
  /\ result = [nil |-> FALSE, HeaderLines |-> 1, Lines |-> 0 - 1]

\* Lines is the number of data rows written whenever a row was read, the run
\* that the line limit stops at the header included.
C24_AfterFirstRow ==
  Succeeded /\ linesRead >= 1 => result.Lines = DataRowsWritten /\ result.Lines >= 0

\* The line limit has stopped the run at the header: Lines = 0.
C24_StoppedAtHeader ==
  /\ Succeeded /\ processHeader /\ lineLimit = 1 /\ linesRead = 1 /\ Len(written) = 1
  /\ result.Lines = 0

====
